---- MODULE Spec2Model ----
(***************************************************************************)
(* Model of the weekly Stripe disputes report (src/index.js):              *)
(*   - getWeekDateRange       : the reporting window                       *)
(*   - RiskScorer             : calculateRiskScore                         *)
(*   - generateCSV            : score every dispute, sort the rows         *)
(*   - runWeeklyReport        : fetch -> CSV -> Asana -> email -> unlink   *)
(*                                                                         *)
(* A JavaScript Date is the record [sec, ms]: whole seconds since the Unix *)
(* epoch and the millisecond part 0..999 (the instant is sec*1000 + ms).   *)
(* Stripe's timestamps (dispute.created, charge.created) are Unix seconds. *)
(***************************************************************************)
EXTENDS Integers, Sequences, FiniteSets, TLC

VARIABLES
    wkNow, wkTz, wkRange,                 \* getWeekDateRange: new Date(), server TZ, result
    dispute, evalNow, assessment,         \* calculateRiskScore: input, Date.now(), result
    batch, clock, csvData,                \* generateCSV: disputes, Date.now(), rows written
    pc, runFile, runDisputes, runRead, log,   \* runWeeklyReport: per invocation
    today, files, tasks, attachments, emails  \* the world the runs act on

weekVars  == <<wkNow, wkTz, wkRange>>
scoreVars == <<dispute, evalNow, assessment>>
csvVars   == <<batch, clock, csvData>>
runVars   == <<pc, runFile, runDisputes, runRead, log, today, files, tasks, attachments, emails>>
vars      == <<weekVars, scoreVars, csvVars, runVars>>

\* An optional value is a sequence of length 0 (absent) or 1 (present).
Min(a, b) == IF a <= b THEN a ELSE b

----------------------------------------------------------------------------
(* Dates                                                                   *)

SecPerDay == 86400

\* 2025-06-30 (a Monday) as days since 1970-01-01: 55 years, 14 of them with a leap
\* day, and the 180 days from 1 January to 30 June.
BaseDay == 55 * 365 + 14 + 180

Date(sec, ms) == [sec |-> sec, ms |-> ms]

DayOf(t) == t.sec \div SecPerDay

\* Date.prototype.getUTCDay: 0 = Sunday ... 6 = Saturday (1970-01-01 was a Thursday).
GetUTCDay(t) == (DayOf(t) + 4) % 7

\* d.setUTCDate(d.getUTCDate() + k): the UTC calendar date moves by k days
\* (the Date object normalises month and year), the time of day is kept.
AddUTCDays(t, k) == Date(t.sec + k * SecPerDay, t.ms)

\* d.setUTCHours(h, m, s, ms) with the time of day given as second-of-day.
SetUTCTime(t, secOfDay, ms) == Date(DayOf(t) * SecPerDay + secOfDay, ms)

\* new Date(year, monthIndex, day) interprets its arguments in the server's
\* LOCAL time zone: local midnight of that calendar date.  tzMin is the zone's
\* offset east of UTC in minutes (local = UTC + tzMin).
LocalMidnight(day, tzMin) == Date(day * SecPerDay - tzMin * 60, 0)

----------------------------------------------------------------------------
(* getWeekDateRange                                                        *)

DaysToSunday(dayOfWeek) == IF dayOfWeek = 0 THEN 7 ELSE dayOfWeek

GetWeekDateRange(now, tzMin) ==
    LET nowUTC    == LocalMidnight(DayOf(now), tzMin)
        dayOfWeek == GetUTCDay(nowUTC)
        endDate   == SetUTCTime(AddUTCDays(nowUTC, 0 - DaysToSunday(dayOfWeek)), 86399, 999)
        startDate == SetUTCTime(AddUTCDays(endDate, 0 - 6), 0, 0)
    IN  [startDate |-> startDate, endDate |-> endDate]

\* Number of consecutive days, from BaseDay on, that "now" is drawn from.
NumDays == 8

TimesOfDay == {0, 9 * 3600, 86399}
TzOffsets  == {0 - 720, 0 - 300, 0, 60, 120, 330, 840}

WeekInit ==
    /\ wkNow \in { Date((BaseDay + d) * SecPerDay + s, ms) :
                     d \in 0..(NumDays - 1), s \in TimesOfDay, ms \in {0, 999} }
    /\ wkTz \in TzOffsets
    /\ wkRange = <<>>

WeekIdle == wkNow = Date(0, 0) /\ wkTz = 0 /\ wkRange = <<>>

\* One evaluation of getWeekDateRange() at the instant wkNow on a server in zone wkTz.
ResolveWindow ==
    /\ wkRange = <<>>
    /\ wkRange' = <<GetWeekDateRange(wkNow, wkTz)>>
    /\ UNCHANGED <<wkNow, wkTz, scoreVars, csvVars, runVars>>

----------------------------------------------------------------------------
(* RiskScorer.calculateRiskScore                                           *)
(*                                                                         *)
(* A dispute is [id, reason, amount, currency, created, charge]; charge is *)
(* optional and holds [created, pmd]; pmd (payment_method_details) is      *)
(* optional and holds [card]; card is optional and holds [brand, funding,  *)
(* country].  A missing string property is "" (falsy, like undefined).     *)

Card(brand, funding, country) == [brand |-> brand, funding |-> funding, country |-> country]

Charge(created, pmd) == [created |-> created, pmd |-> pmd]

\* reasonScores[dispute.reason] || 5.  A reason is a tag of the billing provider
\* ("" when absent); none of them names a property that the table object inherits.
ReasonScore(reason) ==
    CASE reason = "fraudulent"            -> 30
      [] reason = "unrecognized"          -> 25
      [] reason = "duplicate"             -> 15
      [] reason = "subscription_canceled" -> 10
      [] reason = "product_unacceptable"  -> 8
      [] reason = "product_not_received"  -> 6
      [] reason = "credit_not_processed"  -> 5
      [] reason = "general"               -> 3
      [] OTHER                            -> 5

\* String.prototype.toLowerCase on the currency codes of the model.
ToLowerCase(s) ==
    CASE s = "USD" -> "usd"
      [] s = "JPY" -> "jpy"
      [] s = "EUR" -> "eur"
      [] OTHER     -> s

ZeroDecimalCurrencies ==
    {"bif", "clp", "djf", "gnf", "jpy", "kmf", "krw", "mga", "pyg", "rwf", "ugx", "vnd",
     "vuv", "xaf", "xof", "xpf"}

\* The amount in major units, kept exact as hundredths of a major unit:
\* dispute.amount for a zero-decimal currency, dispute.amount / 100 otherwise.
AmountHundredths(amount, currency) ==
    IF currency \in ZeroDecimalCurrencies THEN amount * 100 ELSE amount

\* <<threshold1000, threshold500, threshold200, threshold100, threshold50>>
Thresholds(currency) ==
    IF currency = "jpy" \/ currency = "krw" THEN <<100000, 50000, 20000, 10000, 5000>>
    ELSE IF currency = "hkd" THEN <<8000, 4000, 1600, 800, 400>>
    ELSE IF currency = "eur" \/ currency = "gbp" THEN <<900, 450, 180, 90, 45>>
    ELSE <<1000, 500, 200, 100, 50>>

\* Shape of a mutant: the top band awards more than the 25 points of the dimension.
AmountScoreTopBandThirty(amount, currency) ==
    LET a  == AmountHundredths(amount, currency)
        th == Thresholds(currency)
    IN  IF a >= th[1] * 100 THEN 30
        ELSE IF a >= th[2] * 100 THEN 20
        ELSE IF a >= th[3] * 100 THEN 15
        ELSE IF a >= th[4] * 100 THEN 10
        ELSE IF a >= th[5] * 100 THEN 5
        ELSE 2

AmountScore(amount, currency) ==
    LET a  == AmountHundredths(amount, currency)
        th == Thresholds(currency)
    IN  IF a >= th[1] * 100 THEN 25
        ELSE IF a >= th[2] * 100 THEN 20
        ELSE IF a >= th[3] * 100 THEN 15
        ELSE IF a >= th[4] * 100 THEN 10
        ELSE IF a >= th[5] * 100 THEN 5
        ELSE 2

\* accountAge = (Date.now() - charge.created * 1000) / 86400000 is compared with
\* whole numbers of days only.  With Date.now() = now.sec*1000 + now.ms and
\* 0 <= now.ms < 1000, accountAge < k holds exactly when
\* now.sec - charge.created < k * 86400.
AccountAgeSec(now, chargeCreated) == now.sec - chargeCreated

CustomerScore(ageSec) ==
    IF ageSec < 1 * SecPerDay THEN 20
    ELSE IF ageSec < 7 * SecPerDay THEN 15
    ELSE IF ageSec < 30 * SecPerDay THEN 10
    ELSE IF ageSec < 90 * SecPerDay THEN 5
    ELSE 2

\* timeBetween = (dispute.created - charge.created) * 1000 / 86400000, in seconds here.
TimingScore(betweenSec) ==
    IF betweenSec < 1 * SecPerDay THEN 15
    ELSE IF betweenSec < 3 * SecPerDay THEN 12
    ELSE IF betweenSec < 7 * SecPerDay THEN 8
    ELSE IF betweenSec < 14 * SecPerDay THEN 5
    ELSE 2

\* paymentMethodDetails?.card?.<property> || 'unknown'
CardProperty(pmd, name) ==
    IF Len(pmd) = 0 THEN "unknown"
    ELSE IF Len(pmd[1].card) = 0 THEN "unknown"
    ELSE IF pmd[1].card[1][name] = "" THEN "unknown"
    ELSE pmd[1].card[1][name]

PaymentScore(brand, funding, country) ==
    Min( (IF funding = "prepaid" THEN 5 ELSE 0)
         + (IF country # "US" /\ country # "CA" /\ country # "GB" THEN 3 ELSE 0)
         + (IF brand \in {"discover", "diners", "jcb"} THEN 2 ELSE 0),
         10 )

Factor(dim, points) == [dim |-> dim, points |-> points]

\* Shape of a mutant: a fallback that scores the record as harmless.
FallbackAssessmentZero ==
    [score |-> 0, factors |-> <<Factor("Insufficient data for risk analysis", 0)>>]

\* return { score: 50, factors: ['Insufficient data for risk analysis'] }
FallbackAssessment ==
    [score |-> 50, factors |-> <<Factor("Insufficient data for risk analysis", 0)>>]

\* calculateRiskScore(dispute) evaluated while Date.now() returns `now`.
CalculateRiskScore(d, now) ==
    IF Len(d.charge) = 0 THEN FallbackAssessment
    ELSE
    LET charge        == d.charge[1]
        reasonScore   == ReasonScore(d.reason)
        currency      == ToLowerCase(d.currency)
        amountScore   == AmountScore(d.amount, currency)
        customerScore == CustomerScore(AccountAgeSec(now, charge.created))
        timingScore   == TimingScore(d.created - charge.created)
        brand         == CardProperty(charge.pmd, "brand")
        funding       == CardProperty(charge.pmd, "funding")
        country       == CardProperty(charge.pmd, "country")
        paymentScore  == PaymentScore(brand, funding, country)
        score         == reasonScore + amountScore + customerScore + timingScore + paymentScore
    IN  [score   |-> Min(score, 100),
         factors |-> << Factor("Reason", reasonScore),
                        Factor("Amount", amountScore),
                        Factor("Customer age", customerScore),
                        Factor("Dispute timing", timingScore),
                        Factor("Payment", paymentScore) >>]

GetRiskLevel(score) ==
    IF score >= 80 THEN "CRITICAL"
    ELSE IF score >= 60 THEN "HIGH"
    ELSE IF score >= 40 THEN "MEDIUM"
    ELSE IF score >= 20 THEN "LOW"
    ELSE "MINIMAL"

\* Inputs of the scoring specification.
Reasons ==
    {"fraudulent", "unrecognized", "duplicate", "subscription_canceled",
     "product_unacceptable", "product_not_received", "credit_not_processed", "general",
     "bank_cannot_process", ""}

Amounts    == {0, 5000, 10000, 20000, 50000, 100000}
Currencies == {"usd", "JPY", "hkd", "eur", "vnd"}

\* The evaluation instant of the scoring specification: 2025-06-30 09:00:00.000 UTC.
ScoreNow == Date(BaseDay * SecPerDay + 9 * 3600, 0)

\* Age of the charge at ScoreNow, and delay of the dispute after the charge, in seconds:
\* one value in the future/negative, and the boundaries of the bands.
ChargeAges    == {0 - 3600, 43200, 1 * SecPerDay, 7 * SecPerDay, 30 * SecPerDay, 90 * SecPerDay}
DisputeDelays == {0 - 3600, 7200, 1 * SecPerDay, 3 * SecPerDay, 7 * SecPerDay, 14 * SecPerDay}

PaymentDetails ==
    {<<>>, <<[card |-> <<>>]>>}
    \cup { <<[card |-> <<Card(b, f, c)>>]>> :
             b \in {"", "visa", "jcb"}, f \in {"", "credit", "prepaid"}, c \in {"", "US", "DE"} }

Charges ==
    {<<>>} \cup { <<Charge(ScoreNow.sec - age, p)>> : age \in ChargeAges, p \in PaymentDetails }

NoDispute == [id |-> 0, reason |-> "", amount |-> 0, currency |-> "", created |-> 0, charge |-> <<>>]

ScoreInit ==
    /\ evalNow = ScoreNow
    /\ \E r \in Reasons, a \in Amounts, cur \in Currencies, ch \in Charges, dl \in DisputeDelays :
          /\ Len(ch) = 0 => dl = 7200
          /\ dispute = [id |-> 1, reason |-> r, amount |-> a, currency |-> cur,
                        created |-> (IF Len(ch) = 0 THEN ScoreNow.sec ELSE ch[1].created + dl),
                        charge |-> ch]
    /\ assessment = <<>>

ScoreIdle == dispute = NoDispute /\ evalNow = Date(0, 0) /\ assessment = <<>>

\* One call of RiskScorer.calculateRiskScore(dispute).
Assess ==
    /\ assessment = <<>>
    /\ dispute # NoDispute
    /\ assessment' = <<CalculateRiskScore(dispute, evalNow)>>
    /\ UNCHANGED <<dispute, evalNow, weekVars, csvVars, runVars>>

----------------------------------------------------------------------------
(* generateCSV                                                             *)

\* Milliseconds that may pass between two consecutive readings of Date.now().
MaxTickMs == 1

\* Largest number of disputes in a fetched batch.
MaxBatch == 3

AddMs(t, k) == Date(t.sec + ((t.ms + k) \div 1000), (t.ms + k) % 1000)

RECURSIVE SumTo(_, _)
SumTo(f, n) == IF n = 0 THEN 0 ELSE f[n] + SumTo(f, n - 1)

\* The object disputes.map builds for one dispute; calculateRiskScore reads Date.now()
\* itself, at the moment the record is mapped.
Row(d, now) ==
    LET riskAnalysis == CalculateRiskScore(d, now)
    IN  [id           |-> d.id,
         reason       |-> d.reason,
         risk_score   |-> riskAnalysis.score,
         risk_level   |-> GetRiskLevel(riskAnalysis.score),
         risk_factors |-> riskAnalysis.factors]

\* The comparator (a, b) => b.risk_score - a.risk_score
Compare(a, b) == b.risk_score - a.risk_score

\* Shape of a mutant: an insertion that puts a row in front of the rows it ties with.
RECURSIVE SortInsertBeforeTies(_, _)
SortInsertBeforeTies(sorted, x) ==
    IF Len(sorted) = 0 THEN <<x>>
    ELSE IF Compare(Head(sorted), x) >= 0 THEN <<x>> \o sorted
    ELSE <<Head(sorted)>> \o SortInsertBeforeTies(Tail(sorted), x)

\* Array.prototype.sort is stable (ECMAScript 2019; the file needs Node >= 18 for the
\* global FormData and Blob): a row goes behind every row the comparator does not put
\* after it.
RECURSIVE SortInsert(_, _)
SortInsert(sorted, x) ==
    IF Len(sorted) = 0 THEN <<x>>
    ELSE IF Compare(Head(sorted), x) > 0 THEN <<x>> \o sorted
    ELSE <<Head(sorted)>> \o SortInsert(Tail(sorted), x)

RECURSIVE SortRows(_)
SortRows(rows) ==
    IF Len(rows) = 0 THEN <<>>
    ELSE SortInsert(SortRows(SubSeq(rows, 1, Len(rows) - 1)), rows[Len(rows)])

\* csvData of generateCSV(disputes, fileName) when the i-th reading of Date.now() is
\* samples[i].
CsvRows(disputes, samples) ==
    SortRows([i \in 1..Len(disputes) |-> Row(disputes[i], samples[i])])

\* The disputes a batch is drawn from (the id is given by the position in the batch).
Proto(reason, amount, currency, created, charge) ==
    [id |-> 0, reason |-> reason, amount |-> amount, currency |-> currency,
     created |-> created, charge |-> charge]

\* A charge that turns exactly one day old one second after ScoreNow.
YoungCharge == ScoreNow.sec + 1 - SecPerDay
OldCharge   == ScoreNow.sec - 40 * SecPerDay

DisputePool ==
    { Proto("fraudulent", 100000, "usd", YoungCharge + 7200, <<Charge(YoungCharge, <<>>)>>),
      Proto("general", 5000, "usd", OldCharge + 5 * SecPerDay, <<Charge(OldCharge, <<>>)>>),
      Proto("credit_not_processed", 20000, "eur", OldCharge + 5 * SecPerDay,
            <<Charge(OldCharge, <<[card |-> <<Card("visa", "credit", "US")>>]>>)>>),
      Proto("", 20000, "eur", OldCharge + 5 * SecPerDay,
            <<Charge(OldCharge, <<[card |-> <<Card("visa", "credit", "US")>>]>>)>>),
      Proto("duplicate", 500, "JPY", ScoreNow.sec, <<>>) }

WithIds(protos) == [i \in 1..Len(protos) |-> [protos[i] EXCEPT !.id = i]]

Batches == UNION { { WithIds(b) : b \in [1..n -> DisputePool] } : n \in 1..MaxBatch }

CsvInit ==
    /\ batch \in Batches
    /\ clock \in {ScoreNow, AddMs(ScoreNow, 999)}
    /\ csvData = <<>>

CsvIdle == batch = <<>> /\ clock = Date(0, 0) /\ csvData = <<>>

\* One call of generateCSV(batch, fileName): the map reads the clock once per record,
\* the clock never runs backwards in between.
GenerateCSV ==
    /\ csvData = <<>>
    /\ Len(batch) > 0
    /\ \E ticks \in [1..Len(batch) -> 0..MaxTickMs] :
          LET samples == [i \in 1..Len(batch) |-> AddMs(clock, SumTo(ticks, i))]
          IN  /\ csvData' = <<CsvRows(batch, samples)>>
              /\ clock' = samples[Len(batch)]
    /\ UNCHANGED <<batch, weekVars, scoreVars, runVars>>

----------------------------------------------------------------------------
(* runWeeklyReport                                                         *)
(*                                                                         *)
(* Every await of the function is one step; pc[r] names the step that      *)
(* invocation r is waiting for.  cron.schedule starts an invocation at     *)
(* every tick of the schedule, whether or not an earlier one has returned. *)

\* The invocations of runWeeklyReport the model follows.
Runs == {1, 2}

\* Number of weeks the schedule runs through.
NumWeeks == 2

\* date.toISOString().split('T')[0]: the UTC calendar date, here its day number.
FormatDate(t) == DayOf(t)

\* `${formatDate(endDate)} - ${formatDate(startDate)} disputes for ${accountName}.csv`;
\* the account name is the same for every invocation of one process.
GenerateFileName(startDate, endDate) == <<FormatDate(endDate), FormatDate(startDate)>>

NoFile == <<0, 0>>

Steps == <<"fetch", "csv", "createTask", "readFile", "attach", "email", "unlink">>

\* Shape of a mutant: the empty result of the fetch does not end the run.
AfterStepNoEmptyCheck(step, ok, n) ==
    IF ~ok THEN "done"
    ELSE CASE step = "fetch"      -> "csv"
           [] step = "csv"        -> "createTask"
           [] step = "createTask" -> "readFile"
           [] step = "readFile"   -> "attach"
           [] step = "attach"     -> "email"
           [] step = "email"      -> "unlink"
           [] OTHER               -> "done"

\* Shape of a mutant: a failed step is logged and the run goes on with the next step.
AfterStepSwallow(step, ok, n) ==
    CASE step = "fetch"      -> IF ok /\ n = 0 THEN "done" ELSE "csv"
      [] step = "csv"        -> "createTask"
      [] step = "createTask" -> "readFile"
      [] step = "readFile"   -> "attach"
      [] step = "attach"     -> "email"
      [] step = "email"      -> "unlink"
      [] OTHER               -> "done"

\* The control flow of the try block: the step awaited after `step` has settled; n is
\* disputes.length.  A rejection is caught by the catch block, which logs and returns.
AfterStep(step, ok, n) ==
    IF ~ok THEN "done"
    ELSE CASE step = "fetch"      -> IF n = 0 THEN "done" ELSE "csv"
           [] step = "csv"        -> "createTask"
           [] step = "createTask" -> "readFile"
           [] step = "readFile"   -> "attach"
           [] step = "attach"     -> "email"
           [] step = "email"      -> "unlink"
           [] OTHER               -> "done"

\* The file system: a set of <<name, content>> with one entry per name; the content
\* of a CSV file is [by, rows]: the invocation that wrote it and the rows it wrote.
FileExists(name) == \E f \in files : f[1] = name
FileContent(name) == (CHOOSE f \in files : f[1] = name)[2]
WriteFile(name, content) == {f \in files : f[1] # name} \cup {<<name, content>>}
RemoveFile(name) == {f \in files : f[1] # name}

NoContent == [by |-> 0, rows |-> <<>>]

\* What the billing provider may return to a run.
RunBatches ==
    {<<>>} \cup {b \in Batches : Len(b) = 1 /\ b[1].reason \in {"fraudulent", "duplicate"}}

Logged(r, step, ok) == Append(log[r], [step |-> step, ok |-> ok])

\* The bookkeeping every settled step shares.
Settle(r, step, ok, n) ==
    /\ log' = [log EXCEPT ![r] = Logged(r, step, ok)]
    /\ pc' = [pc EXCEPT ![r] = AfterStep(step, ok, n)]

RunInit ==
    /\ pc = [r \in Runs |-> "idle"]
    /\ runFile = [r \in Runs |-> NoFile]
    /\ runDisputes = [r \in Runs |-> <<>>]
    /\ runRead = [r \in Runs |-> NoContent]
    /\ log = [r \in Runs |-> <<>>]
    /\ today = ScoreNow
    /\ files = {}
    /\ tasks = [r \in Runs |-> 0]
    /\ attachments = [r \in Runs |-> <<>>]
    /\ emails = [r \in Runs |-> <<>>]

RunIdle ==
    /\ pc = [r \in Runs |-> "off"]
    /\ runFile = [r \in Runs |-> NoFile]
    /\ runDisputes = [r \in Runs |-> <<>>]
    /\ runRead = [r \in Runs |-> NoContent]
    /\ log = [r \in Runs |-> <<>>]
    /\ today = Date(0, 0)
    /\ files = {}
    /\ tasks = [r \in Runs |-> 0]
    /\ attachments = [r \in Runs |-> <<>>]
    /\ emails = [r \in Runs |-> <<>>]

otherVars == <<weekVars, scoreVars, csvVars>>

\* A week passes between two ticks of the schedule.
NextWeek ==
    /\ DayOf(today) < BaseDay + 7 * (NumWeeks - 1)
    /\ today' = AddUTCDays(today, 7)
    /\ UNCHANGED <<pc, runFile, runDisputes, runRead, log, files, tasks, attachments, emails,
                   otherVars>>

\* cron fires: runWeeklyReport() runs up to its first await (the fetch).  The server
\* of this specification keeps UTC.
Trigger(r) ==
    /\ pc[r] = "idle"
    /\ LET range == GetWeekDateRange(today, 0)
       IN  runFile' = [runFile EXCEPT ![r] = GenerateFileName(range.startDate, range.endDate)]
    /\ pc' = [pc EXCEPT ![r] = "fetch"]
    /\ UNCHANGED <<runDisputes, runRead, log, today, files, tasks, attachments, emails,
                   otherVars>>

\* stripe.disputes.list settles; with a non-empty result generateCSV maps, sorts and
\* starts writing in the same turn.
Fetch(r) ==
    /\ pc[r] = "fetch"
    /\ \/ \E b \in RunBatches :
             /\ runDisputes' = [runDisputes EXCEPT ![r] = b]
             /\ Settle(r, "fetch", TRUE, Len(b))
       \/ /\ Settle(r, "fetch", FALSE, 0)
          /\ UNCHANGED runDisputes
    /\ UNCHANGED <<runFile, runRead, today, files, tasks, attachments, emails, otherVars>>

\* csvWriter.writeRecords(csvData) settles: the file is (over)written, or the write fails.
WriteCsv(r) ==
    /\ pc[r] = "csv"
    /\ \/ /\ files' = WriteFile(runFile[r],
                        [by |-> r,
                         rows |-> CsvRows(runDisputes[r],
                                          [i \in 1..Len(runDisputes[r]) |-> today])])
          /\ Settle(r, "csv", TRUE, 0)
       \/ /\ Settle(r, "csv", FALSE, 0)
          /\ UNCHANGED files
    /\ UNCHANGED <<runFile, runDisputes, runRead, today, tasks, attachments, emails, otherVars>>

\* axios.post(.../tasks) settles.
CreateTask(r) ==
    /\ pc[r] = "createTask"
    /\ \/ /\ tasks' = [tasks EXCEPT ![r] = @ + 1]
          /\ Settle(r, "createTask", TRUE, 0)
       \/ /\ Settle(r, "createTask", FALSE, 0)
          /\ UNCHANGED tasks
    /\ UNCHANGED <<runFile, runDisputes, runRead, today, files, attachments, emails, otherVars>>

\* fs.readFile(fileName) settles: it rejects when there is no such file.
ReadFile(r) ==
    /\ pc[r] = "readFile"
    /\ \/ /\ FileExists(runFile[r])
          /\ runRead' = [runRead EXCEPT ![r] = FileContent(runFile[r])]
          /\ Settle(r, "readFile", TRUE, 0)
       \/ /\ Settle(r, "readFile", FALSE, 0)
          /\ UNCHANGED runRead
    /\ UNCHANGED <<runFile, runDisputes, today, files, tasks, attachments, emails, otherVars>>

\* axios.post(.../attachments) settles.
Attach(r) ==
    /\ pc[r] = "attach"
    /\ \/ /\ attachments' = [attachments EXCEPT ![r] = Append(@, runRead[r])]
          /\ Settle(r, "attach", TRUE, 0)
       \/ /\ Settle(r, "attach", FALSE, 0)
          /\ UNCHANGED attachments
    /\ UNCHANGED <<runFile, runDisputes, runRead, today, files, tasks, emails, otherVars>>

\* transporter.sendMail settles: the attachment is read from the path when the mail is
\* sent, so the send rejects when there is no such file.
SendEmail(r) ==
    /\ pc[r] = "email"
    /\ \/ /\ FileExists(runFile[r])
          /\ emails' = [emails EXCEPT ![r] = Append(@, FileContent(runFile[r]))]
          /\ Settle(r, "email", TRUE, 0)
       \/ /\ Settle(r, "email", FALSE, 0)
          /\ UNCHANGED emails
    /\ UNCHANGED <<runFile, runDisputes, runRead, today, files, tasks, attachments, otherVars>>

\* fs.unlink(fileName) settles: it rejects when there is no such file.
Unlink(r) ==
    /\ pc[r] = "unlink"
    /\ \/ /\ FileExists(runFile[r])
          /\ files' = RemoveFile(runFile[r])
          /\ Settle(r, "unlink", TRUE, 0)
       \/ /\ Settle(r, "unlink", FALSE, 0)
          /\ UNCHANGED files
    /\ UNCHANGED <<runFile, runDisputes, runRead, today, tasks, attachments, emails, otherVars>>

----------------------------------------------------------------------------
(* Specifications                                                          *)

WeekNext == ResolveWindow
WeekStart == WeekInit /\ ScoreIdle /\ CsvIdle /\ RunIdle
WeekSpec == WeekStart /\ [][WeekNext]_vars

ScoreNext == Assess
ScoreStart == ScoreInit /\ WeekIdle /\ CsvIdle /\ RunIdle
ScoreSpec == ScoreStart /\ [][ScoreNext]_vars

CsvNext == GenerateCSV
CsvStart == CsvInit /\ WeekIdle /\ ScoreIdle /\ RunIdle
CsvSpec == CsvStart /\ [][CsvNext]_vars

RunNext ==
    \/ NextWeek
    \/ \E r \in Runs :
          \/ Trigger(r)
          \/ Fetch(r)
          \/ WriteCsv(r)
          \/ CreateTask(r)
          \/ ReadFile(r)
          \/ Attach(r)
          \/ SendEmail(r)
          \/ Unlink(r)
RunStart == RunInit /\ WeekIdle /\ ScoreIdle /\ CsvIdle
RunSpec == RunStart /\ [][RunNext]_vars

Init == RunStart
Next == RunNext
Spec == Init /\ [][Next]_vars

----------------------------------------------------------------------------
(* Properties                                                              *)

RunOwnsAFile(r) == \E f \in files : f[2].by = r

\* C1: once an invocation has created its CSV file, the file is removed before the
\* invocation ends, on every exit path: no invocation has returned while a file it
\* wrote is still on disk.
C1_ArtifactRemovedOnEveryPath ==
    \A r \in Runs : pc[r] = "done" => ~RunOwnsAFile(r)

\* The window the specification asks for at the instant `now`: Monday 00:00:00.000 UTC
\* to Sunday 23:59:59.999 UTC of the week before the one `now` lies in.
ExpectedWindow(now) ==
    LET thisMonday == DayOf(now) - ((GetUTCDay(now) + 6) % 7)
    IN  [startDate |-> Date((thisMonday - 7) * SecPerDay, 0),
         endDate   |-> Date(thisMonday * SecPerDay - 1, 999)]

\* a - b in milliseconds.
DiffMs(a, b) == (a.sec - b.sec) * 1000 + (a.ms - b.ms)

\* C2: for every instant and every server time zone getWeekDateRange returns the
\* immediately preceding completed Monday-Sunday week in UTC, 7 days minus 1 ms long.
C2_PrecedingCompletedWeek ==
    wkRange # <<>> =>
        /\ wkRange[1] = ExpectedWindow(wkNow)
        /\ DiffMs(wkRange[1].endDate, wkRange[1].startDate) = 7 * SecPerDay * 1000 - 1

StepIndex(step) == CHOOSE i \in 1..Len(Steps) : Steps[i] = step

StepSucceeded(r, step) == \E i \in 1..Len(log[r]) : log[r][i].step = step /\ log[r][i].ok

\* C3: a failed step ends the run: the steps of a run are taken in pipeline order and
\* at most once each (no retry), a failed step is the last step of its run, after it
\* the run has returned normally, and what was done before stays done (the task and
\* the attachment of a run are still there when a later step has failed).
C3_FailureAbortsRun ==
    \A r \in Runs :
        LET l == log[r]
        IN  /\ \A i, j \in 1..Len(l) : i < j => StepIndex(l[i].step) < StepIndex(l[j].step)
            /\ \A i \in 1..Len(l) : ~l[i].ok => (i = Len(l) /\ pc[r] = "done")
            /\ tasks[r] = (IF StepSucceeded(r, "createTask") THEN 1 ELSE 0)
            /\ Len(attachments[r]) = (IF StepSucceeded(r, "attach") THEN 1 ELSE 0)
            /\ Len(emails[r]) = (IF StepSucceeded(r, "email") THEN 1 ELSE 0)

\* A run whose email send failed after its task had been created and its file attached.
C3_Witness ==
    \E r \in Runs :
        /\ pc[r] = "done"
        /\ Len(log[r]) = 6
        /\ log[r][6] = [step |-> "email", ok |-> FALSE]
        /\ tasks[r] = 1
        /\ Len(attachments[r]) = 1

\* C4: a run whose fetch returned no dispute ends right after the fetch: no CSV file,
\* no task, no attachment, no email, no unlink; and every run that went past the fetch
\* fetched at least one dispute.
C4_EmptyFetchIsNoOp ==
    \A r \in Runs :
        /\ (StepSucceeded(r, "fetch") /\ Len(runDisputes[r]) = 0) =>
              /\ pc[r] = "done"
              /\ Len(log[r]) = 1
              /\ tasks[r] = 0
              /\ attachments[r] = <<>>
              /\ emails[r] = <<>>
              /\ ~RunOwnsAFile(r)
        /\ Len(log[r]) >= 2 => (log[r][1].ok /\ Len(runDisputes[r]) >= 1)

\* A run that has returned after a fetch that succeeded with no dispute.
C4_Witness ==
    \E r \in Runs :
        /\ pc[r] = "done"
        /\ log[r] = <<[step |-> "fetch", ok |-> TRUE]>>
        /\ runDisputes[r] = <<>>

SubScoreMaxima == <<30, 25, 20, 15, 10>>

\* C5: for a dispute with a charge the score is an integer in 0..100, it is the sum of
\* the five sub-scores capped at 100, and no sub-score exceeds its maximum
\* (30, 25, 20, 15, 10).
C5_ScoreIsCappedSum ==
    (assessment # <<>> /\ Len(dispute.charge) = 1) =>
        LET a == assessment[1]
            f == a.factors
        IN  /\ a.score \in 0..100
            /\ Len(f) = 5
            /\ a.score = Min(100, f[1].points + f[2].points + f[3].points + f[4].points
                                  + f[5].points)
            /\ \A i \in 1..5 : f[i].points \in 0..SubScoreMaxima[i]

\* A dispute that reaches the maximum of every dimension.
C5_Witness ==
    /\ assessment # <<>>
    /\ Len(dispute.charge) = 1
    /\ assessment[1].score = 100
    /\ \A i \in 1..5 : assessment[1].factors[i].points = SubScoreMaxima[i]

\* The card property as the provider sent it: "" when it, the card or the payment
\* method details are missing.
RawCardProperty(pmd, name) ==
    IF Len(pmd) = 0 THEN ""
    ELSE IF Len(pmd[1].card) = 0 THEN ""
    ELSE pmd[1].card[1][name]

\* C6: a missing payment-method value earns nothing: the payment sub-score is +5 for
\* prepaid funding, +3 for a known card country outside US/CA/GB and +2 for a brand in
\* discover/diners/jcb, so a charge without payment-method details scores 0 here.
C6_MissingValueScoresNothing ==
    (assessment # <<>> /\ Len(dispute.charge) = 1) =>
        LET pmd     == dispute.charge[1].pmd
            funding == RawCardProperty(pmd, "funding")
            country == RawCardProperty(pmd, "country")
            brand   == RawCardProperty(pmd, "brand")
        IN  assessment[1].factors[5].points =
                (IF funding = "prepaid" THEN 5 ELSE 0)
                + (IF country # "" /\ country \notin {"US", "CA", "GB"} THEN 3 ELSE 0)
                + (IF brand \in {"discover", "diners", "jcb"} THEN 2 ELSE 0)

SameRecord(a, b) == [a EXCEPT !.id = 0] = [b EXCEPT !.id = 0]

\* C7: all records of one run are scored against one evaluation instant: two disputes
\* of a batch with identical fields get the same score and the same factors.
C7_OneInstantPerRun ==
    csvData # <<>> =>
        LET rows == csvData[1]
        IN  \A i, j \in 1..Len(rows) :
                SameRecord(batch[rows[i].id], batch[rows[j].id]) =>
                    /\ rows[i].risk_score = rows[j].risk_score
                    /\ rows[i].risk_factors = rows[j].risk_factors

\* C8: the rows written are a permutation of the fetched disputes (one row per
\* dispute), in non-increasing order of risk score, and rows of equal score keep the
\* order in which the provider returned their disputes.
C8_SortedStablePermutation ==
    csvData # <<>> =>
        LET rows == csvData[1]
        IN  /\ Len(rows) = Len(batch)
            /\ {rows[i].id : i \in 1..Len(rows)} = 1..Len(batch)
            /\ \A i \in 1..Len(rows) : rows[i].reason = batch[rows[i].id].reason
            /\ \A i, j \in 1..Len(rows) :
                  i < j => /\ rows[i].risk_score >= rows[j].risk_score
                           /\ rows[i].risk_score = rows[j].risk_score => rows[i].id < rows[j].id

\* A batch the sort had to reorder and that holds two rows of equal score.
C8_Witness ==
    /\ csvData # <<>>
    /\ Len(batch) = 3
    /\ csvData[1][1].id = 3
    /\ \E i, j \in 1..3 : i < j /\ csvData[1][i].risk_score = csvData[1][j].risk_score

FactorOrder == <<"Reason", "Amount", "Customer age", "Dispute timing", "Payment">>

\* C9: a dispute without a charge gets the fallback assessment, score 50 and one
\* factor, whatever its other fields are; a dispute with a charge gets five factors in
\* the order reason, amount, customer age, timing, payment method.
C9_FallbackAssessment ==
    assessment # <<>> =>
        LET a == assessment[1]
        IN  IF Len(dispute.charge) = 0
            THEN a.score = 50 /\ Len(a.factors) = 1
            ELSE /\ Len(a.factors) = 5
                 /\ \A i \in 1..5 : a.factors[i].dim = FactorOrder[i]

\* A fraud dispute of the largest amount whose charge is missing.
C9_Witness ==
    /\ assessment # <<>>
    /\ Len(dispute.charge) = 0
    /\ dispute.reason = "fraudulent"
    /\ dispute.amount = 100000

\* C10: the artifact of a run is its own: as long as a run still has to read its CSV
\* file (for the attachment or for the email), the file at its path exists and holds
\* what this run wrote, also when another run is under way.
C10_ArtifactScopedToRun ==
    \A r \in Runs :
        pc[r] \in {"createTask", "readFile", "attach", "email"} =>
            /\ FileExists(runFile[r])
            /\ FileContent(runFile[r]).by = r

====
